---- MODULE Spec2Model ----
(***************************************************************************)
(* Model of python/stats.py: the Stats accumulator (count, minimum,        *)
(* maximum, K, Ex, Ex2, sum) with its queries, and the quantile            *)
(* approximations Z and T.                                                 *)
(*                                                                         *)
(* Observations are integers and the accumulator's arithmetic is exact:    *)
(* quotients are kept as reduced fractions <<n, d>>.  The polynomial       *)
(* arithmetic of Z and T is decimal fixed point with nine fractional       *)
(* digits (every coefficient of the source is exact at that resolution),   *)
(* products and quotients truncated toward zero.                           *)
(*                                                                         *)
(* TLC hands an operator its arguments unevaluated and evaluates them at   *)
(* each use; an operator that uses an argument more than once binds its    *)
(* value first, as in  CHOOSE r \in {e(x) : x \in {a}} : TRUE.             *)
(***************************************************************************)
EXTENDS Integers, Sequences, FiniteSets, TLC

(***************************************************************************)
(* Bounds of the model.                                                    *)
(***************************************************************************)
\* observations are drawn from -MaxVal..MaxVal
MaxVal == 1
\* adds between two resets under Spec
MaxCount == 4
\* adds between two resets under SpecConf (past the switch at count 30)
MaxConfCount == 31
\* degrees of freedom tried under SpecQuantile
MaxNdf == 28

Values == (0 - MaxVal)..MaxVal

(***************************************************************************)
(* Extended reals: float('inf'), -float('inf') and finite values.          *)
(***************************************************************************)
PosInf == [inf |-> 1, v |-> 0]
NegInf == [inf |-> 0 - 1, v |-> 0]
Fin(x) == [inf |-> 0, v |-> x]

\* a < b on extended reals
ExtLt(a, b) ==
    IF a.inf # b.inf THEN a.inf < b.inf
    ELSE a.inf = 0 /\ a.v < b.v

\* Python's min(a, b): b when b < a, else a
PyMin(a, b) == IF ExtLt(b, a) THEN b ELSE a

\* Python's max(a, b): b when b > a, else a
PyMax(a, b) == IF ExtLt(a, b) THEN b ELSE a

(***************************************************************************)
(* Exact fractions <<n, d>>, d > 0, in lowest terms: the value of a float  *)
(* expression before rounding.                                             *)
(***************************************************************************)
Abs(x) == IF x < 0 THEN 0 - x ELSE x

RECURSIVE GCD(_, _)
GCD(a, b) ==
    CHOOSE r \in {IF y = 0 THEN x ELSE GCD(y, x % y) : x \in {a}, y \in {b}} : TRUE

Rat(n, d) ==
    CHOOSE r \in {<<(y[1] * x) \div y[2], (y[1] * y[3]) \div y[2]>> :
                   x \in {n},
                   y \in {<<IF d < 0 THEN 0 - 1 ELSE 1, GCD(Abs(n), Abs(d)), d>>}} : TRUE

RInt(x) == <<x, 1>>

RAdd(a, b) ==
    CHOOSE r \in {Rat(x[1] * y[2] + y[1] * x[2], x[2] * y[2]) : x \in {a}, y \in {b}} : TRUE

RSub(a, b) ==
    CHOOSE r \in {Rat(x[1] * y[2] - y[1] * x[2], x[2] * y[2]) : x \in {a}, y \in {b}} : TRUE

RMul(a, b) ==
    CHOOSE r \in {Rat(x[1] * y[1], x[2] * y[2]) : x \in {a}, y \in {b}} : TRUE

RDiv(a, b) ==
    CHOOSE r \in {Rat(x[1] * y[2], x[2] * y[1]) : x \in {a}, y \in {b}} : TRUE

RLt(a, b) ==
    CHOOSE r \in {x[1] * y[2] < y[1] * x[2] : x \in {a}, y \in {b}} : TRUE

(***************************************************************************)
(* Outcomes of a call: a returned value or a raised StatsException.        *)
(***************************************************************************)
Return(x) == [ok |-> TRUE, val |-> x]

\* raise StatsException(msg); msg is <<format, argument>> or <<text>>
Raise(msg) == [ok |-> FALSE, exc |-> "StatsException", msg |-> msg]

\* a call that returns nothing
None == <<>>

need1ErrStr == "%s is undefined for less than one sample"
need2ErrStr == "%s is undefined for less than two samples"
removeErrStr == "the removal of values is not implemented"

(***************************************************************************)
(* The accumulator: a record of the seven fields of a Stats object.        *)
(***************************************************************************)
\* Stats.reset: the fields after the call
reset(s) ==
    [count |-> 0, minimum |-> PosInf, maximum |-> NegInf,
     K |-> 0, Ex |-> 0, Ex2 |-> 0, sum |-> 0]

\* add with the deviation taken from zero, not from the anchor
add_uncentered(s, value) ==
    LET k == IF s.count = 0 THEN value ELSE s.K
    IN [count |-> s.count + 1,
        minimum |-> PyMin(s.minimum, Fin(value)),
        maximum |-> PyMax(s.maximum, Fin(value)),
        K |-> k,
        Ex |-> s.Ex + value,
        Ex2 |-> s.Ex2 + value * value,
        sum |-> s.sum + value]

\* add with the maximum taken against the updated minimum
add_max_of_minimum(s, value) ==
    LET k == IF s.count = 0 THEN value ELSE s.K
    IN [count |-> s.count + 1,
        minimum |-> PyMin(s.minimum, Fin(value)),
        maximum |-> PyMax(PyMin(s.minimum, Fin(value)), Fin(value)),
        K |-> k,
        Ex |-> s.Ex + (value - k),
        Ex2 |-> s.Ex2 + (value - k) * (value - k),
        sum |-> s.sum + value]

\* add with the anchor set after the deviations are accumulated
add_late_anchor(s, value) ==
    [count |-> s.count + 1,
     minimum |-> PyMin(s.minimum, Fin(value)),
     maximum |-> PyMax(s.maximum, Fin(value)),
     K |-> IF s.count = 0 THEN value ELSE s.K,
     Ex |-> s.Ex + (value - s.K),
     Ex2 |-> s.Ex2 + (value - s.K) * (value - s.K),
     sum |-> s.sum + value]

\* Stats.add: the fields after add(value).  "self._count is 0" holds exactly
\* when the count is 0: CPython keeps one object for each small integer.
add(s, value) ==
    LET k == IF s.count = 0 THEN value ELSE s.K
    IN [count |-> s.count + 1,
        minimum |-> PyMin(s.minimum, Fin(value)),
        maximum |-> PyMax(s.maximum, Fin(value)),
        K |-> k,
        Ex |-> s.Ex + (value - k),
        Ex2 |-> s.Ex2 + (value - k) * (value - k),
        sum |-> s.sum + value]

count(s) == Return(s.count)

sum(s) ==
    IF s.count < 1 THEN Raise(<<need1ErrStr, "sum">>)
    ELSE Return(s.sum)

min(s) ==
    IF s.count < 1 THEN Raise(<<need1ErrStr, "minimum">>)
    ELSE Return(s.minimum)

max(s) ==
    IF s.count < 1 THEN Raise(<<need1ErrStr, "maximum">>)
    ELSE Return(s.maximum)

\* mean with the threshold off by one
mean_off_by_one(s) ==
    IF s.count <= 1 THEN Raise(<<need1ErrStr, "mean">>)
    ELSE Return(RAdd(RInt(s.K), RDiv(RInt(s.Ex), RInt(s.count))))

mean(s) ==
    IF s.count < 1 THEN Raise(<<need1ErrStr, "mean">>)
    ELSE Return(RAdd(RInt(s.K), RDiv(RInt(s.Ex), RInt(s.count))))

\* var without Bessel's correction
var_biased(s) ==
    IF s.count < 2 THEN Raise(<<need2ErrStr, "variance">>)
    ELSE Return(RDiv(RSub(RInt(s.Ex2),
                          RDiv(RMul(RInt(s.Ex), RInt(s.Ex)), RInt(s.count))),
                     RInt(s.count)))

var(s) ==
    IF s.count < 2 THEN Raise(<<need2ErrStr, "variance">>)
    ELSE Return(RDiv(RSub(RInt(s.Ex2),
                          RDiv(RMul(RInt(s.Ex), RInt(s.Ex)), RInt(s.count))),
                     RInt(s.count - 1)))

\* math.sqrt(x), kept as the expression
Sqrt(x) == [sqrt |-> x]

stddev(s) ==
    IF s.count < 2 THEN Raise(<<need2ErrStr, "stddev">>)
    ELSE Return(Sqrt(var(s).val))

stderr(s) ==
    IF s.count < 2 THEN Raise(<<need2ErrStr, "stderr">>)
    ELSE Return(Sqrt(RDiv(var(s).val, RInt(s.count))))

(***************************************************************************)
(* Decimal fixed point for the float arithmetic of Z and T: sign sg,       *)
(* integer part i and fraction f in units of 1/Unit.  TLC's integers are   *)
(* 32 bits wide, so a product is formed limb by limb.                      *)
(***************************************************************************)
Unit == 10^9
Tenth == 10^8

\* zero carries the sign +1: -0.0 == 0.0 in Python
Fx(sg, i, f) ==
    IF i = 0 /\ f = 0 THEN [sg |-> 1, i |-> 0, f |-> 0]
    ELSE [sg |-> sg, i |-> i, f |-> f]

\* the decimal literal i.f, f written with nine digits
FxDec(i, f) == Fx(1, i, f)
FxInt(n) == Fx(IF n < 0 THEN 0 - 1 ELSE 1, Abs(n), 0)
FxNeg(a) == CHOOSE r \in {Fx(0 - x.sg, x.i, x.f) : x \in {a}} : TRUE
\* math.fabs
FxAbs(a) == CHOOSE r \in {Fx(1, x.i, x.f) : x \in {a}} : TRUE

MagLt(a, b) == a.i < b.i \/ (a.i = b.i /\ a.f < b.f)

MagAdd(a, b) ==
    LET t == a.f + b.f
    IN [i |-> a.i + b.i + t \div Unit, f |-> t % Unit]

\* a - b for magnitudes with b <= a
MagSub(a, b) ==
    LET borrow == IF a.f < b.f THEN 1 ELSE 0
    IN [i |-> a.i - b.i - borrow, f |-> a.f - b.f + borrow * Unit]

\* a + b for the values x and y
FxAddV(x, y) ==
    IF x.sg = y.sg
    THEN LET m == MagAdd(x, y) IN Fx(x.sg, m.i, m.f)
    ELSE IF MagLt(x, y)
         THEN LET m == MagSub(y, x) IN Fx(y.sg, m.i, m.f)
         ELSE LET m == MagSub(x, y) IN Fx(x.sg, m.i, m.f)

FxAdd(a, b) == CHOOSE r \in {FxAddV(x, y) : x \in {a}, y \in {b}} : TRUE

FxSub(a, b) == FxAdd(a, FxNeg(b))

\* <<q, r>> with a * b = q * Unit + r, for 0 <= a < Unit and b >= 0:
\* schoolbook multiplication on limbs of three decimal digits
MulDiv(a, b) ==
    LET a0 == a % 1000
        a1 == (a \div 1000) % 1000
        a2 == a \div 1000000
        b0 == b % 1000
        b1 == (b \div 1000) % 1000
        b2 == (b \div 1000000) % 1000
        b3 == b \div Unit
        k0 == a0 * b0
        k1 == a0 * b1 + a1 * b0 + k0 \div 1000
        k2 == a0 * b2 + a1 * b1 + a2 * b0 + k1 \div 1000
        k3 == a0 * b3 + a1 * b2 + a2 * b1 + k2 \div 1000
    IN <<k3 + 1000 * (a1 * b3 + a2 * b2) + 1000000 * (a2 * b3),
         (k0 % 1000) + 1000 * (k1 % 1000) + 1000000 * (k2 % 1000)>>

\* a * b for the values a and b
FxMulV(a, b) ==
    LET x == MulDiv(b.f, a.i)
        y == MulDiv(a.f, b.i)
        z == MulDiv(a.f, b.f)
        t == x[2] + y[2]
        u == (t % Unit) + z[1]
    IN Fx(a.sg * b.sg,
          a.i * b.i + x[1] + y[1] + t \div Unit + u \div Unit,
          u % Unit)

FxMul(a, b) == CHOOSE r \in {FxMulV(x, y) : x \in {a}, y \in {b}} : TRUE

\* <<q + k, r - k * d>> for the largest k with k * d <= r
RECURSIVE Fit(_, _, _)
Fit(r, d, q) ==
    CHOOSE w \in {IF MagLt(x, d) THEN <<k, x>> ELSE Fit(MagSub(x, d), d, k + 1) :
                   x \in {r}, k \in {q}} : TRUE

MagTimesTen(r) == [i |-> r.i * 10 + r.f \div Tenth, f |-> (r.f % Tenth) * 10]

\* the next k decimal digits of r / d, appended to acc
RECURSIVE FracDigits(_, _, _, _)
FracDigits(r, d, k, acc) ==
    IF k = 0 THEN acc
    ELSE CHOOSE w \in {FracDigits(s[2], d, k - 1, s[3] * 10 + s[1]) :
                        s \in {Fit(MagTimesTen(r), d, 0) \o <<acc>>}} : TRUE

\* a / b for the values x and y
FxDivV(x, y) ==
    CHOOSE r \in {Fx(x.sg * y.sg, w[1], FracDigits(w[2], y, 9, 0)) :
                   w \in {Fit(x, y, 0)}} : TRUE

FxDiv(a, b) == CHOOSE r \in {FxDivV(x, y) : x \in {a}, y \in {b}} : TRUE

(***************************************************************************)
(* The quantile approximations.  A probability is a fraction <<n, d>>.     *)
(***************************************************************************)
Half == <<1, 2>>

\* math.sqrt(-2.0 * math.log(q)): the library's values, to nine decimals
SqrtNeg2Log(q) ==
    CASE q = <<1, 200>> -> FxDec(3, 255247261)
      [] q = <<1, 40>> -> FxDec(2, 716203031)
      [] q = <<1, 20>> -> FxDec(2, 447746831)
      [] q = <<1, 10>> -> FxDec(2, 145966026)
      [] q = <<1, 4>> -> FxDec(1, 665109222)
      [] q = <<2, 5>> -> FxDec(1, 353728726)
      [] q = <<1, 2>> -> FxDec(1, 177410023)

\* Z without the final change of sign
Z_unsigned(p) ==
    LET q == IF RLt(Half, p) THEN RSub(RInt(1), p) ELSE p
        z1 == SqrtNeg2Log(q)
        n == FxAdd(FxMul(FxAdd(FxMul(FxDec(0, 10328000), z1),
                               FxDec(0, 802853000)), z1),
                   FxDec(2, 515517000))
        d == FxAdd(FxMul(FxAdd(FxMul(FxAdd(FxMul(FxDec(0, 1308000), z1),
                                           FxDec(0, 189269000)), z1),
                               FxDec(1, 432780000)), z1),
                   FxInt(1))
    IN FxSub(z1, FxDiv(n, d))

Z(p) ==
    LET q == IF RLt(Half, p) THEN RSub(RInt(1), p) ELSE p
        z1 == SqrtNeg2Log(q)
        n == FxAdd(FxMul(FxAdd(FxMul(FxDec(0, 10328000), z1),
                               FxDec(0, 802853000)), z1),
                   FxDec(2, 515517000))
        d == FxAdd(FxMul(FxAdd(FxMul(FxAdd(FxMul(FxDec(0, 1308000), z1),
                                           FxDec(0, 189269000)), z1),
                               FxDec(1, 432780000)), z1),
                   FxInt(1))
        z == FxSub(z1, FxDiv(n, d))
    IN IF RLt(Half, p) THEN FxNeg(z) ELSE z

\* x after the loop "for i in 3, 2, 1, 0: x = (x + h[i]) / ndf" has reached i
RECURSIVE Fold(_, _, _, _)
Fold(h, ndf, i, x) ==
    IF i < 0 THEN x
    ELSE CHOOSE r \in {Fold(h, ndf, i - 1, y) :
                        y \in {FxDiv(FxAdd(x, h[i]), FxInt(ndf))}} : TRUE

\* the correction terms h[0..3] of T for z1 = |Z(p)|
TTermsV(z1) ==
    LET z2 == FxMul(z1, z1)
        h0 == FxMul(FxMul(FxDec(0, 250000000), z1), FxAdd(z2, FxInt(1)))
        h1 == FxMul(FxMul(FxDec(0, 10416667), z1),
                    FxAdd(FxMul(FxAdd(FxMul(FxInt(5), z2), FxInt(16)), z2),
                          FxInt(3)))
        h2 == FxMul(FxMul(FxDec(0, 2604167), z1),
                    FxSub(FxMul(FxAdd(FxMul(FxInt(3), z2), FxInt(19)), z2),
                          FxInt(15)))
        h3 == FxMul(FxMul(z1,
                    FxSub(FxMul(FxSub(FxMul(FxAdd(FxMul(FxAdd(FxMul(FxInt(79), z2),
                                                              FxInt(776)), z2),
                                                  FxInt(1482)), z2),
                                      FxInt(1920)), z2),
                          FxInt(945))),
                    FxDec(0, 10851))
    IN <<z1, h0, h1, h2, h3>>

TTerms(z) == CHOOSE w \in {TTermsV(z1) : z1 \in {z}} : TRUE

T(p, ndf) ==
    CHOOSE r \in
        {IF RLt(Half, p)
         THEN FxNeg(FxAdd(w[1], Fold([i \in 0..3 |-> w[i + 2]], ndf, 3, FxInt(0))))
         ELSE FxAdd(w[1], Fold([i \in 0..3 |-> w[i + 2]], ndf, 3, FxInt(0))) :
         w \in {TTerms(FxAbs(Z(p)))}} : TRUE

(***************************************************************************)
(* Stats.conf and Stats.remove, which use the definitions above.           *)
(***************************************************************************)
\* the default of conf's parameter: level = 0.95
DefaultLevel == <<19, 20>>

\* the confidence levels tried under SpecConf
Levels == {<<9, 10>>, DefaultLevel, <<99, 100>>}

\* conf with the switch to Z one observation late
conf_switch_at_31(s, level) ==
    IF s.count < 2 THEN Raise(<<need2ErrStr, "confidence interval">>)
    ELSE LET centered == RDiv(RSub(RInt(1), level), RInt(2))
         IN IF s.count > 1 /\ s.count <= 30
            THEN Return([fudge |-> T(centered, s.count - 1),
                         stderr |-> stderr(s).val,
                         via |-> <<"T", centered, s.count - 1>>])
            ELSE Return([fudge |-> Z(centered),
                         stderr |-> stderr(s).val,
                         via |-> <<"Z", centered>>])

\* conf's value fudge * self.stderr(), kept as its two factors; via records
\* which approximation was called, and with what arguments
conf(s, level) ==
    IF s.count < 2 THEN Raise(<<need2ErrStr, "confidence interval">>)
    ELSE LET centered == RDiv(RSub(RInt(1), level), RInt(2))
         IN IF s.count > 1 /\ s.count < 30
            THEN Return([fudge |-> T(centered, s.count - 1),
                         stderr |-> stderr(s).val,
                         via |-> <<"T", centered, s.count - 1>>])
            ELSE Return([fudge |-> Z(centered),
                         stderr |-> stderr(s).val,
                         via |-> <<"Z", centered>>])

\* remove that raises without resetting
remove_keeps_state(s, value) == [self |-> s, out |-> Raise(<<removeErrStr>>)]

\* Stats.remove: the fields after the call, and the exception it raises
remove(s, value) == [self |-> reset(s), out |-> Raise(<<removeErrStr>>)]

(***************************************************************************)
(* State.                                                                  *)
(*   self  the fields of the Stats object                                  *)
(*   hist  history variable: the values added since the fields were last   *)
(*         reset, in order                                                 *)
(*   res   the last call: its name op, its argument arg, the count before  *)
(*         it pre, and its outcome out                                     *)
(*   qarg  the arguments handed to Z and T under SpecQuantile              *)
(***************************************************************************)
VARIABLES self, hist, res, qarg

vars == <<self, hist, res, qarg>>

Call(op, arg, out) == [op |-> op, arg |-> arg, pre |-> self.count, out |-> out]

\* the probabilities tried: those SqrtNeg2Log tabulates and their complements
PGrid ==
    {<<1, 200>>, <<1, 40>>, <<1, 20>>, <<1, 10>>, <<1, 4>>, <<2, 5>>, <<1, 2>>,
     <<3, 5>>, <<3, 4>>, <<9, 10>>, <<19, 20>>, <<39, 40>>, <<199, 200>>}

\* Stats.__init__
Init ==
    /\ self = reset([count |-> 0])
    /\ hist = <<>>
    /\ res = [op |-> "__init__", arg |-> None, pre |-> 0, out |-> Return(None)]
    /\ qarg = [p |-> Half, ndf |-> 1]

Add(value) ==
    /\ self' = add(self, value)
    /\ hist' = Append(hist, value)
    /\ res' = Call("add", value, Return(None))
    /\ UNCHANGED qarg

Remove(value) ==
    /\ self' = remove(self, value).self
    /\ hist' = <<>>
    /\ res' = Call("remove", value, remove(self, value).out)
    /\ UNCHANGED qarg

\* reset that leaves Ex2 as it was
Reset_keeps_Ex2 ==
    /\ self' = [reset(self) EXCEPT !.Ex2 = self.Ex2]
    /\ hist' = <<>>
    /\ res' = Call("reset", None, Return(None))
    /\ UNCHANGED qarg

Reset ==
    /\ self' = reset(self)
    /\ hist' = <<>>
    /\ res' = Call("reset", None, Return(None))
    /\ UNCHANGED qarg

Count ==
    /\ res' = Call("count", None, count(self))
    /\ UNCHANGED <<self, hist, qarg>>

Sum ==
    /\ res' = Call("sum", None, sum(self))
    /\ UNCHANGED <<self, hist, qarg>>

Min ==
    /\ res' = Call("min", None, min(self))
    /\ UNCHANGED <<self, hist, qarg>>

Max ==
    /\ res' = Call("max", None, max(self))
    /\ UNCHANGED <<self, hist, qarg>>

Mean ==
    /\ res' = Call("mean", None, mean(self))
    /\ UNCHANGED <<self, hist, qarg>>

\* var that centres Ex2 in place
Var_in_place ==
    /\ res' = Call("var", None, var(self))
    /\ self' = [self EXCEPT !.Ex2 = self.Ex2 - self.Ex * self.Ex]
    /\ UNCHANGED <<hist, qarg>>

Var ==
    /\ res' = Call("var", None, var(self))
    /\ UNCHANGED <<self, hist, qarg>>

Stddev ==
    /\ res' = Call("stddev", None, stddev(self))
    /\ UNCHANGED <<self, hist, qarg>>

Stderr ==
    /\ res' = Call("stderr", None, stderr(self))
    /\ UNCHANGED <<self, hist, qarg>>

Conf(level) ==
    /\ res' = Call("conf", level, conf(self, level))
    /\ UNCHANGED <<self, hist, qarg>>

Next ==
    \/ self.count < MaxCount /\ \E value \in Values : Add(value)
    \/ \E value \in Values : Remove(value)
    \/ Reset
    \/ Count
    \/ Sum
    \/ Min
    \/ Max
    \/ Mean
    \/ Var
    \/ Stddev
    \/ Stderr
    \/ Conf(DefaultLevel)

Spec == Init /\ [][Next]_vars

(***************************************************************************)
(* SpecAdds: adds and resets alone, for the properties of add sequences.   *)
(***************************************************************************)
NextAdds ==
    \/ self.count < MaxCount /\ \E value \in Values : Add(value)
    \/ Reset

SpecAdds == Init /\ [][NextAdds]_vars

(***************************************************************************)
(* SpecConf: accumulators of up to MaxConfCount observations, so that conf *)
(* is called on both sides of its switch.  The history is not recorded.    *)
(***************************************************************************)
ConfValues == {0, 1}

ConfAdd(value) ==
    /\ self' = add(self, value)
    /\ res' = Call("add", value, Return(None))
    /\ UNCHANGED <<hist, qarg>>

NextConf ==
    \/ self.count < MaxConfCount /\ \E value \in ConfValues : ConfAdd(value)
    \/ Reset
    \/ \E level \in Levels : Conf(level)

SpecConf == Init /\ [][NextConf]_vars

(***************************************************************************)
(* SpecQuantile: Z and T applied to arguments drawn from PGrid and         *)
(* 1..MaxNdf.                                                              *)
(***************************************************************************)
InitQuantile ==
    /\ self = reset([count |-> 0])
    /\ hist = <<>>
    /\ res = [op |-> "__init__", arg |-> None, pre |-> 0, out |-> Return(None)]
    /\ qarg \in [p : PGrid, ndf : 1..MaxNdf]

CallZ ==
    /\ res' = Call("Z", qarg.p, Return(Z(qarg.p)))
    /\ UNCHANGED <<self, hist, qarg>>

CallT ==
    /\ res' = Call("T", <<qarg.p, qarg.ndf>>, Return(T(qarg.p, qarg.ndf)))
    /\ UNCHANGED <<self, hist, qarg>>

NextQuantile == CallZ \/ CallT

SpecQuantile == InitQuantile /\ [][NextQuantile]_vars

(***************************************************************************)
(* Definitions the properties are stated with.                             *)
(***************************************************************************)
\* the initial configuration, field by field
Fresh ==
    [count |-> 0, minimum |-> PosInf, maximum |-> NegInf,
     K |-> 0, Ex |-> 0, Ex2 |-> 0, sum |-> 0]

\* the fields after the values of q have been added to s, in order
RECURSIVE AddAll(_, _)
AddAll(s, q) ==
    IF Len(q) = 0 THEN s
    ELSE CHOOSE r \in {AddAll(t, Tail(q)) : t \in {add(s, Head(q))}} : TRUE

RECURSIVE SumOf(_)
SumOf(q) == IF Len(q) = 0 THEN 0 ELSE Head(q) + SumOf(Tail(q))

RECURSIVE SumSqOf(_)
SumSqOf(q) == IF Len(q) = 0 THEN 0 ELSE Head(q) * Head(q) + SumSqOf(Tail(q))

\* the sum of (x - m)^2 over the values x of q
RECURSIVE DevSqOf(_, _)
DevSqOf(q, m) ==
    IF Len(q) = 0 THEN RInt(0)
    ELSE RAdd(RMul(RSub(RInt(Head(q)), m), RSub(RInt(Head(q)), m)),
              DevSqOf(Tail(q), m))

MeanOf(q) == RDiv(RInt(SumOf(q)), RInt(Len(q)))

\* the Bessel-corrected sample variance of the values of q, Len(q) >= 2
SampleVariance(q) == RDiv(DevSqOf(q, MeanOf(q)), RInt(Len(q) - 1))

Elements(q) == {q[i] : i \in 1..Len(q)}
Smallest(q) == CHOOSE x \in Elements(q) : \A y \in Elements(q) : x <= y
Largest(q) == CHOOSE x \in Elements(q) : \A y \in Elements(q) : y <= x

Permuted(q, f) == [i \in 1..Len(q) |-> q[f[i]]]

Need1Ops == {"sum", "min", "max", "mean"}
Need2Ops == {"var", "stddev", "stderr", "conf"}
QueryOps == {"count"} \cup Need1Ops \cup Need2Ops

\* every query but count() fails on s
AllQueriesFail(s) ==
    /\ ~sum(s).ok
    /\ ~min(s).ok
    /\ ~max(s).ok
    /\ ~mean(s).ok
    /\ ~var(s).ok
    /\ ~stddev(s).ok
    /\ ~stderr(s).ok
    /\ \A level \in Levels : ~conf(s, level).ok

\* what the queries the order of adds must not change answer on s
OrderedQueries(s) == <<count(s), sum(s), min(s), max(s), mean(s), var(s)>>

\* 1 - p
Complement(p) == RSub(RInt(1), p)

(***************************************************************************)
(* C1.  After any sequence of add, reset and remove calls, sum, min, max   *)
(* and mean raise the "less than one sample" exception exactly when        *)
(* count < 1, and var, stddev, stderr and conf raise the "less than two    *)
(* samples" exception exactly when count < 2; count() always returns, and  *)
(* returns 0 when nothing has been added since the last reset.             *)
(***************************************************************************)
C1_QueryThresholds ==
    /\ res.op \in Need1Ops =>
        /\ res.out.ok <=> ~(self.count < 1)
        /\ ~res.out.ok => res.out.msg[1] = need1ErrStr
    /\ res.op \in Need2Ops =>
        /\ res.out.ok <=> ~(self.count < 2)
        /\ ~res.out.ok => res.out.msg[1] = need2ErrStr
    /\ res.op = "count" =>
        /\ res.out = Return(Len(hist))
        /\ hist = <<>> => res.out = Return(0)

C1_Witness == res.op = "var" /\ self.count = 1 /\ ~res.out.ok

(***************************************************************************)
(* C2.  remove(value) raises the "removal not implemented" exception for   *)
(* every argument and every state, and leaves the accumulator in the reset *)
(* state: count 0, minimum +inf, maximum -inf, K, Ex, Ex2 and sum 0, so    *)
(* that every query but count() then fails.                                *)
(***************************************************************************)
C2_RemoveFailsAndResets ==
    res.op = "remove" =>
        /\ res.out = Raise(<<removeErrStr>>)
        /\ self = Fresh
        /\ AllQueriesFail(self)
        /\ count(self) = Return(0)

C2_Witness == res.op = "remove" /\ res.pre >= 2 /\ res.arg # 0

(***************************************************************************)
(* C3.  With count >= 2, var() is the Bessel-corrected sample variance of  *)
(* the values added since the last reset: the sum of (x - mean)^2 over     *)
(* count - 1; equivalently count * Ex2 - Ex^2 = count * sum(x^2) -         *)
(* (sum x)^2, whichever value became the anchor K.                         *)
(***************************************************************************)
C3_VarIsSampleVariance ==
    self.count >= 2 =>
        /\ self.count = Len(hist)
        /\ var(self) = Return(SampleVariance(hist))
        /\ self.count * self.Ex2 - self.Ex * self.Ex
             = Len(hist) * SumSqOf(hist) - SumOf(hist) * SumOf(hist)

C3_Witness ==
    /\ self.count >= 3
    /\ self.K # 0
    /\ self.Ex # 0
    /\ var(self).val # RInt(0)

(***************************************************************************)
(* C4.  count * K + Ex = sum in every reachable state, and with            *)
(* count >= 1 the value of mean(), K + Ex / count, equals sum / count.     *)
(***************************************************************************)
C4_MeanIsSumOverCount ==
    /\ self.count * self.K + self.Ex = self.sum
    /\ self.count >= 1 => mean(self) = Return(RDiv(RInt(self.sum), RInt(self.count)))

C4_Witness ==
    /\ res.op = "mean"
    /\ res.out.ok
    /\ self.count >= 2
    /\ self.K # 0
    /\ self.Ex # 0

(***************************************************************************)
(* C5.  With count >= 1, min() is the smallest and max() the largest of    *)
(* the values added since the last reset or remove, so minimum <= maximum. *)
(***************************************************************************)
C5_MinMaxOfHistory ==
    self.count >= 1 =>
        /\ min(self) = Return(Fin(Smallest(hist)))
        /\ max(self) = Return(Fin(Largest(hist)))
        /\ ~ExtLt(self.maximum, self.minimum)

C5_Witness ==
    /\ self.count >= 3
    /\ ExtLt(self.minimum, self.maximum)
    /\ hist[1] # Smallest(hist)
    /\ hist[1] # Largest(hist)

(***************************************************************************)
(* C6.  Adding the values of the history to a fresh accumulator in any     *)
(* other order gives the same count, sum, min, max, mean and var.          *)
(***************************************************************************)
C6_OrderIndependence ==
    \A f \in Permutations(1..Len(hist)) :
        OrderedQueries(AddAll(Fresh, Permuted(hist, f))) = OrderedQueries(self)

C6_Witness ==
    /\ self.count >= 3
    /\ \E f \in Permutations(1..Len(hist)) :
          /\ AddAll(Fresh, Permuted(hist, f)).K # self.K
          /\ AddAll(Fresh, Permuted(hist, f)).Ex # self.Ex
          /\ AddAll(Fresh, Permuted(hist, f)).Ex2 # self.Ex2

(***************************************************************************)
(* C7.  reset() always returns and leaves every field at its initial       *)
(* value, on an empty accumulator as after adds; the first add after it    *)
(* sets the anchor K, and the fields are those of a fresh accumulator to   *)
(* which the values added since have been added.                           *)
(***************************************************************************)
C7_ResetRestoresInitialState ==
    /\ res.op = "reset" =>
        /\ res.out = Return(None)
        /\ self = Fresh
    /\ (res.op = "add" /\ res.pre = 0) => self.K = res.arg
    /\ self = AddAll(Fresh, hist)

C7_Witness == res.op = "reset" /\ res.pre >= 2

(***************************************************************************)
(* C8.  With count >= 2, conf(level) returns multiplier * stderr() for     *)
(* centered = (1 - level) / 2, the multiplier being T(centered, count - 1) *)
(* when 2 <= count <= 29, so that 1 <= ndf <= 28, and Z(centered) when     *)
(* count >= 30.                                                            *)
(***************************************************************************)
C8_ConfMultiplier ==
    (res.op = "conf" /\ self.count >= 2) =>
        /\ res.out.ok
        /\ res.out.val.stderr = stderr(self).val
        /\ self.count <= 29 =>
            /\ res.out.val.via = <<"T", RDiv(Complement(res.arg), RInt(2)), self.count - 1>>
            /\ res.out.val.via[3] \in 1..28
            /\ res.out.val.fudge = T(RDiv(Complement(res.arg), RInt(2)), self.count - 1)
        /\ self.count >= 30 =>
            /\ res.out.val.via = <<"Z", RDiv(Complement(res.arg), RInt(2))>>
            /\ res.out.val.fudge = Z(RDiv(Complement(res.arg), RInt(2)))

C8_Witness ==
    /\ res.op = "conf"
    /\ self.count = 30
    /\ res.out.ok
    /\ res.out.val.via[1] = "Z"
    /\ self.Ex2 # 0

(***************************************************************************)
(* C9 as stated.  Z(p) = -Z(1 - p) and T(p, ndf) = -T(1 - p, ndf) for      *)
(* every p, p = 1/2 included, and every ndf >= 1.                          *)
(***************************************************************************)
C9_AntisymmetryEverywhere ==
    /\ res.op = "Z" => res.out.val = FxNeg(Z(Complement(qarg.p)))
    /\ res.op = "T" => res.out.val = FxNeg(T(Complement(qarg.p), qarg.ndf))

(***************************************************************************)
(* C9 as amended.  Z(p) = -Z(1 - p) and T(p, ndf) = -T(1 - p, ndf) for     *)
(* every p other than 1/2 and every ndf >= 1; at p = 1/2 both return a     *)
(* value that is not zero, and so not its own negation.                    *)
(***************************************************************************)
C9_AntisymmetryOffHalf ==
    /\ (res.op = "Z" /\ qarg.p # Half) =>
          res.out.val = FxNeg(Z(Complement(qarg.p)))
    /\ (res.op = "T" /\ qarg.p # Half) =>
          res.out.val = FxNeg(T(Complement(qarg.p), qarg.ndf))
    /\ (res.op \in {"Z", "T"} /\ qarg.p = Half) =>
          res.out.val # FxNeg(res.out.val)

C9_Witness ==
    /\ res.op = "T"
    /\ RLt(Half, qarg.p)
    /\ qarg.ndf >= 2
    /\ res.out.val.sg = 0 - 1

(***************************************************************************)
(* C10.  A query, whether it returns or raises, leaves the seven fields    *)
(* as they were: a step that changes a field is an add, a reset or a       *)
(* remove.                                                                 *)
(***************************************************************************)
C10_QueriesReadOnly ==
    [][/\ res'.op \in QueryOps => self' = self
       /\ self' # self => res'.op \in {"add", "reset", "remove"}]_vars

C10_Witness ==
    /\ res.op = "conf"
    /\ ~res.out.ok
    /\ self.count = 1
    /\ self.sum # 0

====
